---- MODULE Spec2Model ----
(* Model of package ir (src/ir/ir.go): the key-code table stringMap and the   *)
(* two conversions ToString (key codes -> text) and ToKeys (text -> key codes).*)
(* A string is a sequence of runes; a rune is its Unicode code point.          *)
EXTENDS Integers, Sequences, FiniteSets, TLC

(* Key codes, src/ir/ir.go:14-130 (hexadecimal in the source). *)
XK_Control == 59
XK_RightShift == 60
XK_RightControl == 62
XK_Command == 55
XK_Shift == 56
XK_ALT == 899
XK_A == 0
XK_S == 1
XK_D == 2
XK_F == 3
XK_H == 4
XK_G == 5
XK_Z == 6
XK_X == 7
XK_C == 8
XK_V == 9
XK_B == 11
XK_Q == 12
XK_W == 13
XK_E == 14
XK_R == 15
XK_Y == 16
XK_T == 17
XK_1 == 18
XK_2 == 19
XK_3 == 20
XK_4 == 21
XK_6 == 22
XK_5 == 23
XK_EQUAL == 24
XK_9 == 25
XK_7 == 26
XK_MINUS == 27
XK_8 == 28
XK_0 == 29
XK_RightBracket == 30
XK_O == 31
XK_U == 32
XK_LeftBracket == 33
XK_I == 34
XK_P == 35
XK_L == 37
XK_J == 38
XK_Quote == 39
XK_K == 40
XK_SEMICOLON == 41
XK_BACKSLASH == 42
XK_COMMA == 43
XK_SLASH == 44
XK_N == 45
XK_M == 46
XK_Period == 47
XK_GRAVE == 50
XK_KeypadDecimal == 65
XK_KeypadMultiply == 67
XK_KeypadPlus == 69
XK_KeypadClear == 71
XK_KeypadDivide == 75
XK_KeypadEnter == 76
XK_KeypadMinus == 78
XK_KeypadEquals == 81
XK_Keypad0 == 82
XK_Keypad1 == 83
XK_Keypad2 == 84
XK_Keypad3 == 85
XK_Keypad4 == 86
XK_Keypad5 == 87
XK_Keypad6 == 88
XK_Keypad7 == 89
XK_Keypad8 == 91
XK_Keypad9 == 92
XK_TAB == 48
XK_SPACE == 49
XK_ENTER == 36
XK_UP == 126

(* stringMap, src/ir/ir.go:133-202: key code -> glyph (a string of 0 or 1 runes). *)
stringMap ==
       XK_A :> <<97>>                   \* a
    @@ XK_S :> <<115>>                  \* s
    @@ XK_D :> <<100>>                  \* d
    @@ XK_F :> <<102>>                  \* f
    @@ XK_H :> <<104>>                  \* h
    @@ XK_G :> <<103>>                  \* g
    @@ XK_Z :> <<122>>                  \* z
    @@ XK_X :> <<120>>                  \* x
    @@ XK_C :> <<99>>                   \* c
    @@ XK_V :> <<118>>                  \* v
    @@ XK_B :> <<98>>                   \* b
    @@ XK_Q :> <<113>>                  \* q
    @@ XK_W :> <<119>>                  \* w
    @@ XK_E :> <<101>>                  \* e
    @@ XK_R :> <<114>>                  \* r
    @@ XK_Y :> <<121>>                  \* y
    @@ XK_T :> <<116>>                  \* t
    @@ XK_1 :> <<49>>                   \* 1
    @@ XK_2 :> <<50>>                   \* 2
    @@ XK_3 :> <<51>>                   \* 3
    @@ XK_4 :> <<52>>                   \* 4
    @@ XK_6 :> <<54>>                   \* 6
    @@ XK_5 :> <<53>>                   \* 5
    @@ XK_EQUAL :> <<61>>               \* =
    @@ XK_9 :> <<57>>                   \* 9
    @@ XK_7 :> <<55>>                   \* 7
    @@ XK_MINUS :> <<45>>               \* -
    @@ XK_8 :> <<56>>                   \* 8
    @@ XK_0 :> <<48>>                   \* 0
    @@ XK_RightBracket :> <<93>>        \* ]
    @@ XK_O :> <<111>>                  \* o
    @@ XK_U :> <<117>>                  \* u
    @@ XK_LeftBracket :> <<91>>         \* [
    @@ XK_I :> <<105>>                  \* i
    @@ XK_P :> <<112>>                  \* p
    @@ XK_L :> <<108>>                  \* l
    @@ XK_J :> <<106>>                  \* j
    @@ XK_Quote :> <<39>>               \* '
    @@ XK_K :> <<107>>                  \* k
    @@ XK_SEMICOLON :> <<59>>           \* ;
    @@ XK_BACKSLASH :> <<92>>           \* \
    @@ XK_COMMA :> <<44>>               \* ,
    @@ XK_SLASH :> <<47>>               \* /
    @@ XK_N :> <<110>>                  \* n
    @@ XK_M :> <<109>>                  \* m
    @@ XK_Period :> <<46>>              \* .
    @@ XK_GRAVE :> <<96>>               \* `
    @@ XK_KeypadDecimal :> <<46>>       \* .
    @@ XK_KeypadMultiply :> <<42>>      \* *
    @@ XK_KeypadPlus :> <<43>>          \* +
    @@ XK_KeypadClear :> <<>>           \* ""
    @@ XK_KeypadDivide :> <<47>>        \* /
    @@ XK_KeypadEnter :> <<>>           \* ""
    @@ XK_KeypadMinus :> <<45>>         \* -
    @@ XK_KeypadEquals :> <<61>>        \* =
    @@ XK_Keypad0 :> <<48>>             \* 0
    @@ XK_Keypad1 :> <<49>>             \* 1
    @@ XK_Keypad2 :> <<50>>             \* 2
    @@ XK_Keypad3 :> <<51>>             \* 3
    @@ XK_Keypad4 :> <<52>>             \* 4
    @@ XK_Keypad5 :> <<53>>             \* 5
    @@ XK_Keypad6 :> <<54>>             \* 6
    @@ XK_Keypad7 :> <<55>>             \* 7
    @@ XK_Keypad8 :> <<56>>             \* 8
    @@ XK_Keypad9 :> <<57>>             \* 9
    @@ XK_TAB :> <<9>>                  \* TAB
    @@ XK_SPACE :> <<32>>               \* SPACE

(* ---------------------------------------------------------------- bounds *)
\* longest key sequence handed to ToString
MaxKeys == 2
\* longest string, in runes, handed to ToKeys (besides the strings of ir_test.go)
MaxRunes == 2

(* ------------------------------------------------------- library functions *)
\* the codes the switch of ToString names (src/ir/ir.go:228-231)
ShiftKeys == {XK_Shift, XK_RightShift}
DroppedKeys == {XK_ALT, XK_Control, XK_RightControl, XK_Command}

\* unicode.ToUpper on one rune; every glyph of stringMap is ASCII, where only
\* a..z (97..122) change, to A..Z (65..90)
ToUpperRune(r) == IF r \in 97..122 THEN r - 32 ELSE r

\* strings.ToUpper: rune by rune
ToUpper(str) == [n \in 1..Len(str) |-> ToUpperRune(str[n])]

\* unicode.IsUpper (category Lu) on the runes the model feeds: A..Z, the
\* Latin-1 capitals and U+212A KELVIN SIGN
IsUpper(r) == r \in (65..90) \cup (192..214) \cup (216..222) \cup {8490}

\* Representative of a rune's unicode.SimpleFold orbit, on the runes the model
\* feeds: {K, k, U+212A}, {S, s, U+017F}, {X, x} for the other ASCII letters
\* and {U+00C9, U+00E9}; every other rune fed is alone in its orbit.
FoldRune(r) ==
    IF r \in 65..90 THEN r + 32
    ELSE IF r = 8490 THEN 107
    ELSE IF r = 383 THEN 115
    ELSE IF r \in (192..214) \cup (216..222) THEN r + 32
    ELSE r

\* strings.EqualFold: same number of runes, pairwise in the same fold orbit
EqualFold(a, b) ==
    /\ Len(a) = Len(b)
    /\ \A n \in 1..Len(a) : FoldRune(a[n]) = FoldRune(b[n])

(* ------------------------------------------------------------------ inputs *)
\* key codes fed to ToString: every table key, the six modifier codes and two
\* codes of the enumeration that have no table entry
Codes == DOMAIN stringMap \cup ShiftKeys \cup DroppedKeys \cup {XK_ENTER, XK_UP}

KeySeqs == UNION {[1..n -> Codes] : n \in 0..MaxKeys}

GlyphRunes == {stringMap[k][1] : k \in {c \in DOMAIN stringMap : stringMap[c] # <<>>}}

\* runes fed to ToKeys: every glyph, its upper case, U+212A KELVIN SIGN and
\* U+017F LONG S (which fold to k and s), and runes no glyph matches:
\* '!', U+00E9, U+00C9, U+1F600, U+FFFD (what range yields for invalid UTF-8)
Runes == GlyphRunes \cup {ToUpperRune(r) : r \in GlyphRunes}
            \cup {8490, 383} \cup {33, 233, 201, 128512, 65533}

\* the inputs of TestToKeys (src/ir/ir_test.go:15,19)
TestXYz == <<120, 89, 122>>
TestHelloWorld == <<72, 101, 108, 108, 111, 32, 87, 111, 114, 108, 100>>

Strings == UNION {[1..n -> Runes] : n \in 0..MaxRunes} \cup {TestXYz, TestHelloWorld}

(* ------------------------------------------------------------------- state *)
VARIABLES
    pc,      \* "ToString" / "ToKeys": inside that function's loop; "...Done": it returned
    rt,      \* TRUE when ToKeys is run on the string a ToString call returned
    keys,    \* ToString: the parameter keys
    i,       \* position of the next element of the range loop (1-based)
    buf,     \* ToString: buf
    shift,   \* ToString: is.shift
    s,       \* ToKeys: the parameter s
    keysOut, \* ToKeys: the local keys
    ret,     \* the first return value (string or key sequence; nil slice = <<>>)
    err      \* the second return value: "nil" or the kind of error

vars == <<pc, rt, keys, i, buf, shift, s, keysOut, ret, err>>

(* ---------------------------------------------------------------- ToString *)
\* entry of ToString(keys), src/ir/ir.go:205-209
CallToString(ks) ==
    /\ pc = "ToString" /\ rt = FALSE
    /\ keys = ks /\ i = 1
    /\ buf = <<>> /\ shift = FALSE
    /\ s = <<>> /\ keysOut = <<>>
    /\ ret = <<>> /\ err = "nil"

\* Switch with the default case upper-casing like the is.shift case
Switch_UpperDefault(key, ks, b, sh) ==
    IF sh THEN [buf |-> b \o ToUpper(ks), shift |-> FALSE]
    ELSE IF key \in ShiftKeys THEN [buf |-> b, shift |-> TRUE]
    ELSE IF key \in DroppedKeys THEN [buf |-> b, shift |-> sh]
    ELSE [buf |-> b \o ToUpper(ks), shift |-> sh]

\* the switch of the loop body, src/ir/ir.go:215-233: the cases are tried in
\* source order, default only when none holds; gives the new buf and is.shift
Switch(key, ks, b, sh) ==
    IF sh THEN [buf |-> b \o ToUpper(ks), shift |-> FALSE]
    ELSE IF key \in ShiftKeys THEN [buf |-> b, shift |-> TRUE]
    ELSE IF key \in DroppedKeys THEN [buf |-> b, shift |-> sh]
    ELSE [buf |-> b \o ks, shift |-> sh]

\* ToStringNotFound returning the text accumulated so far with the error
ToStringNotFound_Partial ==
    /\ pc = "ToString"
    /\ i <= Len(keys)
    /\ keys[i] \notin DOMAIN stringMap
    /\ ret' = buf
    /\ err' = "KeyNotFound"
    /\ pc' = "ToStringDone"
    /\ UNCHANGED <<rt, keys, i, buf, shift, s, keysOut>>

\* src/ir/ir.go:211-214: the lookup fails, return "", error
ToStringNotFound ==
    /\ pc = "ToString"
    /\ i <= Len(keys)
    /\ keys[i] \notin DOMAIN stringMap
    /\ ret' = <<>>
    /\ err' = "KeyNotFound"
    /\ pc' = "ToStringDone"
    /\ UNCHANGED <<rt, keys, i, buf, shift, s, keysOut>>

\* ToStringIter with the modifier codes dispatched without a table entry
ToStringIter_ModifiersFirst ==
    /\ pc = "ToString"
    /\ i <= Len(keys)
    /\ keys[i] \in DOMAIN stringMap \cup ShiftKeys \cup DroppedKeys
    /\ LET ks == IF keys[i] \in DOMAIN stringMap THEN stringMap[keys[i]] ELSE <<>>
           r == Switch(keys[i], ks, buf, shift)
       IN  /\ buf' = r.buf
           /\ shift' = r.shift
    /\ i' = i + 1
    /\ UNCHANGED <<pc, rt, keys, s, keysOut, ret, err>>

\* src/ir/ir.go:210-234: one iteration whose lookup succeeds
\* (bytes.Buffer.WriteString never returns a non-nil error)
ToStringIter ==
    /\ pc = "ToString"
    /\ i <= Len(keys)
    /\ keys[i] \in DOMAIN stringMap
    /\ LET r == Switch(keys[i], stringMap[keys[i]], buf, shift)
       IN  /\ buf' = r.buf
           /\ shift' = r.shift
    /\ i' = i + 1
    /\ UNCHANGED <<pc, rt, keys, s, keysOut, ret, err>>

\* src/ir/ir.go:235: the sequence is exhausted, return buf.String(), nil
ToStringReturn ==
    /\ pc = "ToString"
    /\ i > Len(keys)
    /\ ret' = buf
    /\ err' = "nil"
    /\ pc' = "ToStringDone"
    /\ UNCHANGED <<rt, keys, i, buf, shift, s, keysOut>>

(* ------------------------------------------------------------------ ToKeys *)
\* entry of ToKeys(str), src/ir/ir.go:240-241
CallToKeys(str) ==
    /\ pc = "ToKeys" /\ rt = FALSE
    /\ s = str /\ i = 1
    /\ keysOut = <<>>
    /\ keys = <<>> /\ buf = <<>> /\ shift = FALSE
    /\ ret = <<>> /\ err = "nil"

\* src/ir/ir.go:245-251: the table keys the inner loop can stop at for rune v;
\* the iteration order of a Go map is unspecified, so any of them can be first
Matching(v) == {k \in DOMAIN stringMap : EqualFold(stringMap[k], <<v>>)}

\* Matching, tabulated once over the runes the model feeds
MatchingOf == [v \in Runes |-> Matching(v)]

\* Append1 without the Shift code
Append1_NoShift(out, v, key) == out \o <<key>>

\* Append1 with the Shift code after the key
Append1_ShiftAfter(out, v, key) ==
    IF IsUpper(v) THEN out \o <<key, XK_Shift>> ELSE out \o <<key>>

\* src/ir/ir.go:252-258: what one rune appends to keys
Append1(out, v, key) ==
    IF IsUpper(v) THEN out \o <<XK_Shift, key>> ELSE out \o <<key>>

\* ToKeysNotFound returning the keys accumulated so far with the error
ToKeysNotFound_Partial ==
    /\ pc = "ToKeys"
    /\ i <= Len(s)
    /\ MatchingOf[s[i]] = {}
    /\ ret' = keysOut
    /\ err' = "RuneNotFound"
    /\ pc' = "ToKeysDone"
    /\ UNCHANGED <<rt, keys, i, buf, shift, s, keysOut>>

\* src/ir/ir.go:253-254: no table glyph matches, return nil, error
ToKeysNotFound ==
    /\ pc = "ToKeys"
    /\ i <= Len(s)
    /\ MatchingOf[s[i]] = {}
    /\ ret' = <<>>
    /\ err' = "RuneNotFound"
    /\ pc' = "ToKeysDone"
    /\ UNCHANGED <<rt, keys, i, buf, shift, s, keysOut>>

\* src/ir/ir.go:242-259: one iteration that finds a key
ToKeysIter ==
    /\ pc = "ToKeys"
    /\ i <= Len(s)
    /\ \E key \in MatchingOf[s[i]] : keysOut' = Append1(keysOut, s[i], key)
    /\ i' = i + 1
    /\ UNCHANGED <<pc, rt, keys, buf, shift, s, ret, err>>

\* src/ir/ir.go:260: the string is exhausted, return keys, nil
ToKeysReturn ==
    /\ pc = "ToKeys"
    /\ i > Len(s)
    /\ ret' = keysOut
    /\ err' = "nil"
    /\ pc' = "ToKeysDone"
    /\ UNCHANGED <<rt, keys, i, buf, shift, s, keysOut>>

(* -------------------------------------------------------------- round trip *)
\* a caller hands the string a successful ToString returned to ToKeys
RoundTrip ==
    /\ pc = "ToStringDone"
    /\ err = "nil"
    /\ rt' = TRUE
    /\ s' = ret
    /\ i' = 1
    /\ keysOut' = <<>>
    /\ ret' = <<>>
    /\ pc' = "ToKeys"
    /\ UNCHANGED <<keys, buf, shift, err>>

(* ---------------------------------------------------------- specifications *)
InitToString == \E ks \in KeySeqs : CallToString(ks)
InitToKeys == \E str \in Strings : CallToKeys(str)
Init == InitToString \/ InitToKeys

NextToString == ToStringNotFound \/ ToStringIter \/ ToStringReturn
NextToKeys == ToKeysNotFound \/ ToKeysIter \/ ToKeysReturn
Next == NextToString \/ NextToKeys \/ RoundTrip

SpecToString == InitToString /\ [][NextToString]_vars
SpecToKeys == InitToKeys /\ [][NextToKeys]_vars
Spec == Init /\ [][Next]_vars

TypeOK ==
    /\ pc \in {"ToString", "ToStringDone", "ToKeys", "ToKeysDone"}
    /\ rt \in BOOLEAN
    /\ shift \in BOOLEAN
    /\ i \in 1..12
    /\ err \in {"nil", "KeyNotFound", "RuneNotFound"}

(* ------------------------------------------------- ToString as a function *)
\* ToString from position n on, with buf = b and is.shift = sh
\* (src/ir/ir.go:210-235); gives both return values
RECURSIVE ToStringFrom(_, _, _, _)
ToStringFrom(ks, n, b, sh) ==
    IF n > Len(ks) THEN [ret |-> b, err |-> "nil"]
    ELSE IF ks[n] \notin DOMAIN stringMap THEN [ret |-> <<>>, err |-> "KeyNotFound"]
    ELSE LET r == Switch(ks[n], stringMap[ks[n]], b, sh)
         IN  ToStringFrom(ks, n + 1, r.buf, r.shift)

\* the loop of ToStringNotFound / ToStringIter / ToStringReturn computes ToStringFrom
LoopComputesToStringFrom ==
    /\ pc = "ToString" => ToStringFrom(keys, i, buf, shift) = ToStringFrom(keys, 1, <<>>, FALSE)
    /\ pc = "ToStringDone" /\ ~rt =>
           [ret |-> ret, err |-> err] = ToStringFrom(keys, 1, <<>>, FALSE)

(* ------------------------------------------------------ notions of the claims *)
AllInTable(ks) == \A n \in 1..Len(ks) : ks[n] \in DOMAIN stringMap

\* the table glyphs of ks, concatenated in order
RECURSIVE Glyphs(_)
Glyphs(ks) == IF ks = <<>> THEN <<>> ELSE stringMap[Head(ks)] \o Glyphs(Tail(ks))

\* the glyph of table key k is the glyph of no other table key
UniqueGlyph(k) == \A k2 \in DOMAIN stringMap : stringMap[k2] = stringMap[k] => k2 = k

AllMapped(str) == \A n \in 1..Len(str) : MatchingOf[str[n]] # {}

NumUpper(str) == Cardinality({n \in 1..Len(str) : IsUpper(str[n])})

\* out is, rune by rune of str, <<k>> for a rune that is not upper-case and
\* <<XK_Shift, k>> for an upper-case one, the glyph of k matching the rune
RECURSIVE Grouped(_, _)
Grouped(str, out) ==
    IF str = <<>> THEN out = <<>>
    ELSE IF IsUpper(Head(str))
         THEN /\ Len(out) >= 2
              /\ out[1] = XK_Shift
              /\ out[2] \in DOMAIN stringMap
              /\ EqualFold(stringMap[out[2]], <<Head(str)>>)
              /\ Grouped(Tail(str), SubSeq(out, 3, Len(out)))
         ELSE /\ Len(out) >= 1
              /\ out[1] \in DOMAIN stringMap
              /\ EqualFold(stringMap[out[1]], <<Head(str)>>)
              /\ Grouped(Tail(str), Tail(out))

(* ------------------------------------------------------------------ claims *)
\* C1: ToString([XK_A]) returns "a" and, for every table key k,
\* ToString([XK_Shift, k]) and ToString([XK_RightShift, k]) return the
\* upper-cased glyph of k, with no error.
C1_ShiftUpperCases ==
    pc = "ToStringDone" =>
        /\ keys = <<XK_A>> => err = "nil" /\ ret = <<97>>
        /\ (Len(keys) = 2 /\ keys[1] \in ShiftKeys /\ keys[2] \in DOMAIN stringMap)
               => err = "nil" /\ ret = ToUpper(stringMap[keys[2]])

\* C2: an Alt, Control, Right-Control or Command code in the input of ToString
\* causes no error and emits nothing: the call returns what it returns for the
\* sequence with those codes removed; ToString([XK_Control, XK_A]) returns "a".
C2_DroppedModifiers ==
    (pc = "ToStringDone" /\ \E n \in 1..Len(keys) : keys[n] \in DroppedKeys) =>
        /\ [ret |-> ret, err |-> err] =
               ToStringFrom(SelectSeq(keys, LAMBDA k : k \notin DroppedKeys), 1, <<>>, FALSE)
        /\ keys = <<XK_Control, XK_A>> => err = "nil" /\ ret = <<97>>

\* C3: for every table key k, ToString([k]) returns the table glyph of k
\* unchanged with no error (the empty string for XK_KeypadClear, XK_KeypadEnter).
C3_SingleKeyGlyph ==
    (pc = "ToStringDone" /\ Len(keys) = 1 /\ keys[1] \in DOMAIN stringMap) =>
        /\ err = "nil"
        /\ ret = stringMap[keys[1]]
        /\ keys[1] \in {XK_KeypadClear, XK_KeypadEnter} => ret = <<>>

C3_Witness ==
    /\ pc = "ToStringDone" /\ keys = <<XK_KeypadEnter>>
    /\ ret = <<>> /\ err = "nil"

\* C4: when the input of ToString holds a code with no table entry, ToString
\* returns an error and the empty string, whatever was accumulated before the
\* first such code, and it stops at that code.
C4_UnknownCodeFails ==
    (pc = "ToStringDone" /\ ~AllInTable(keys)) =>
        /\ err = "KeyNotFound"
        /\ ret = <<>>
        /\ i \in 1..Len(keys)
        /\ keys[i] \notin DOMAIN stringMap
        /\ AllInTable(SubSeq(keys, 1, i - 1))

C4_Witness ==
    /\ pc = "ToStringDone" /\ keys = <<XK_A, XK_ENTER>>
    /\ buf = <<97>> /\ ret = <<>> /\ err = "KeyNotFound"

\* C5: ToKeys("a") = [XK_A] and ToKeys("A") = [XK_Shift, XK_A]; for every rune
\* matched by exactly one table key k, ToKeys of that rune alone returns [k]
\* when the rune is not upper-case and [XK_Shift, k] when it is, with no error.
C5_SingleRune ==
    (pc = "ToKeysDone" /\ Len(s) = 1) =>
        /\ s = <<97>> => err = "nil" /\ ret = <<XK_A>>
        /\ s = <<65>> => err = "nil" /\ ret = <<XK_Shift, XK_A>>
        /\ \A k \in DOMAIN stringMap : MatchingOf[s[1]] = {k} =>
               /\ err = "nil"
               /\ ret = IF IsUpper(s[1]) THEN <<XK_Shift, k>> ELSE <<k>>

C5_Witness ==
    /\ pc = "ToKeysDone" /\ s = <<65>>
    /\ ret = <<XK_Shift, XK_A>> /\ err = "nil"

C7_UnmappedRuneFails ==
    (pc = "ToKeysDone" /\ ~AllMapped(s)) =>
        /\ err = "RuneNotFound"
        /\ ret = <<>>

C7_Witness ==
    /\ pc = "ToKeysDone" /\ s = <<65, 128512>>
    /\ keysOut = <<XK_Shift, XK_A>> /\ ret = <<>> /\ err = "RuneNotFound"

\* the sequences of claim C8: no Alt, Control, Right-Control or Command code,
\* and every other code is a Shift code or a table key whose glyph no other
\* table key carries
RoundTripInput(ks) ==
    \A n \in 1..Len(ks) :
        \/ ks[n] \in ShiftKeys
        \/ ks[n] \in DOMAIN stringMap /\ UniqueGlyph(ks[n])

\* C8: round trip: for such a sequence ToString succeeds and ToKeys of its
\* result returns the sequence.
C8_RoundTrip ==
    RoundTripInput(keys) =>
        /\ pc = "ToStringDone" => err = "nil"
        /\ (pc = "ToKeysDone" /\ rt) => err = "nil" /\ ret = keys

\* C9: a sequence that ends with a Shift or Right-Shift code after plain table
\* keys makes ToString return the text of the preceding codes and no error;
\* ToString([XK_A, XK_Shift]) returns "a".
C9_TrailingShift ==
    (/\ pc = "ToStringDone"
     /\ Len(keys) >= 1
     /\ keys[Len(keys)] \in ShiftKeys
     /\ AllInTable(SubSeq(keys, 1, Len(keys) - 1))) =>
        /\ err = "nil"
        /\ ret = Glyphs(SubSeq(keys, 1, Len(keys) - 1))

\* C10: is.shift is false in every state of ToString, no modifier code is a
\* key of stringMap, ToString succeeds exactly when every code of the input is
\* a key of stringMap, and then returns the unmodified glyphs in order.
C10_ShiftNeverSet ==
    /\ shift = FALSE
    /\ (ShiftKeys \cup DroppedKeys) \cap DOMAIN stringMap = {}
    /\ pc = "ToStringDone" =>
           /\ err = "nil" <=> AllInTable(keys)
           /\ err = "nil" => ret = Glyphs(keys)

C10_Witness ==
    /\ pc = "ToStringDone" /\ keys = <<XK_Shift, XK_A>>
    /\ i = 1 /\ shift = FALSE /\ ret = <<>> /\ err = "KeyNotFound"
====
